---- MODULE Spec2Model ----
(***************************************************************************)
(* Model of app.py, a Streamlit sales dashboard.  The script is executed   *)
(* from top to bottom once per user interaction; the only state that       *)
(* outlives a run is the st.cache_data store and the session's widget      *)
(* state.  One action of the model is one complete run of the script.      *)
(*                                                                         *)
(* Representation choices:                                                 *)
(*  - a calendar date is the integer yyyymmdd, whose integer order is the  *)
(*    order of datetime.date;                                              *)
(*  - Sales is a fixed-point number of hundredths (the code uses float64;  *)
(*    sums are therefore exact here, float rounding is not modelled);      *)
(*  - a DataFrame is the sequence of its rows, each row a record holding   *)
(*    its index label idx and its four columns;                            *)
(*  - the CSV text is a sequence of lines, each line a sequence of tokens: *)
(*    one token per character of a formatted number or date, one token per *)
(*    separator, one token per string cell (written verbatim);             *)
(*  - the Mersenne Twister is not reproduced bit for bit: the values drawn *)
(*    after np.random.seed(42) are a fixed function of the draw position,  *)
(*    taken from a small family indexed by rng_stream.                     *)
(*  Charts, markdown and describe() only render; they are not modelled.    *)
(***************************************************************************)
EXTENDS Integers, Sequences, FiniteSets, TLC

VARIABLES
    rng_stream,           \* which fixed output stream the seeded generator has
    cache,                \* st.cache_data store of generate_data: {} or {df}
    widgets,              \* session widget state: label -> value, rendered widgets only
    gen_runs,             \* how many times the body of generate_data has executed
    runs,                 \* how many times the script has run
    page,                 \* script variables of the latest run
    data,
    start_date,
    end_date,
    selected_categories,
    selected_regions,
    filtered_data,
    total_sales,
    avg_sales,
    max_sales,
    total_days,
    cat_data,
    region_data,
    csv

vars == <<rng_stream, cache, widgets, gen_runs, runs, page, data, start_date,
          end_date, selected_categories, selected_regions, filtered_data,
          total_sales, avg_sales, max_sales, total_days, cat_data, region_data, csv>>

----------------------------------------------------------------------------
\* Bounds of the model.

\* Number of generator output streams Init chooses from.
NStreams == 2

\* The user picks dates at most this many days away from the first or the
\* last date of the dataset (on either side of it).
MaxPick == 1

\* Script runs per session.
MaxRuns == 5

----------------------------------------------------------------------------
\* Calendar.

MkDate(y, m, d) == y * 10000 + m * 100 + d
YearOf(d) == d \div 10000
MonthOf(d) == (d \div 100) % 100
DayOf(d) == d % 100

IsLeap(y) == (y % 4 = 0 /\ y % 100 # 0) \/ y % 400 = 0

DaysInMonth(y, m) ==
    IF m = 2 THEN (IF IsLeap(y) THEN 29 ELSE 28)
    ELSE IF m \in {4, 6, 9, 11} THEN 30 ELSE 31

NextDay(d) ==
    LET y == YearOf(d)  m == MonthOf(d)  dd == DayOf(d) IN
    IF dd < DaysInMonth(y, m) THEN MkDate(y, m, dd + 1)
    ELSE IF m < 12 THEN MkDate(y, m + 1, 1)
    ELSE MkDate(y + 1, 1, 1)

PrevDay(d) ==
    LET y == YearOf(d)  m == MonthOf(d)  dd == DayOf(d) IN
    IF dd > 1 THEN MkDate(y, m, dd - 1)
    ELSE IF m > 1 THEN MkDate(y, m - 1, DaysInMonth(y, m - 1))
    ELSE MkDate(y - 1, 12, 31)

\* The date k days after d (k >= 0), stepping month by month.
RECURSIVE AddDays(_, _)
AddDays(d, k) ==
    LET y == YearOf(d)  m == MonthOf(d)  left == DaysInMonth(y, m) - DayOf(d) IN
    IF k <= left THEN MkDate(y, m, DayOf(d) + k)
    ELSE AddDays(NextDay(MkDate(y, m, DaysInMonth(y, m))), k - left - 1)

\* The date k days before d (k >= 0).
RECURSIVE SubDays(_, _)
SubDays(d, k) ==
    IF k < DayOf(d) THEN MkDate(YearOf(d), MonthOf(d), DayOf(d) - k)
    ELSE SubDays(PrevDay(MkDate(YearOf(d), MonthOf(d), 1)), k - DayOf(d))

\* Number of days from a to b (0 when b is not after a).
RECURSIVE DaysBetween(_, _)
DaysBetween(a, b) ==
    LET y == YearOf(a)  m == MonthOf(a) IN
    IF a >= b THEN 0
    ELSE IF y = YearOf(b) /\ m = MonthOf(b) THEN DayOf(b) - DayOf(a)
    ELSE (DaysInMonth(y, m) - DayOf(a) + 1)
         + DaysBetween(NextDay(MkDate(y, m, DaysInMonth(y, m))), b)

\* The same range without its end point (inclusive="left").
date_range_left(start, end) ==
    [i \in 1..DaysBetween(start, end) |-> AddDays(start, i - 1)]

\* pd.date_range(start, end, freq='D'): every day from start to end, both included.
date_range(start, end) ==
    IF end < start THEN <<>>
    ELSE [i \in 1..(DaysBetween(start, end) + 1) |-> AddDays(start, i - 1)]

----------------------------------------------------------------------------
\* generate_data.

RangeStart == 20230101
RangeEnd == 20231231
Seed == 42
RandLow == 100
RandHigh == 1000

Categories == <<"Electronics", "Clothing", "Food", "Books", "Home">>
Regions == <<"North", "South", "East", "West", "Central">>

\* round(100 * 100 * sin(0.1 * i)) for i = 0 .. 364: the term
\* np.sin(np.arange(len(dates)) * 0.1) * 100, in hundredths.
SinTable == <<
      0, 998, 1987, 2955, 3894, 4794, 5646, 6442, 7174, 7833, 8415, 8912,
      9320, 9636, 9854, 9975, 9996, 9917, 9738, 9463, 9093, 8632, 8085, 7457,
      6755, 5985, 5155, 4274, 3350, 2392, 1411, 416, -584, -1577, -2555, -3508,
      -4425, -5298, -6119, -6878, -7568, -8183, -8716, -9162, -9516, -9775, -9937, -9999,
      -9962, -9825, -9589, -9258, -8835, -8323, -7728, -7055, -6313, -5507, -4646, -3739,
      -2794, -1822, -831, 168, 1165, 2151, 3115, 4048, 4941, 5784, 6570, 7290,
      7937, 8504, 8987, 9380, 9679, 9882, 9985, 9989, 9894, 9699, 9407, 9022,
      8546, 7985, 7344, 6630, 5849, 5010, 4121, 3191, 2229, 1245, 248, -752,
      -1743, -2718, -3665, -4575, -5440, -6251, -6999, -7677, -8278, -8797, -9228, -9566,
      -9809, -9954, -10000, -9946, -9792, -9540, -9193, -8755, -8228, -7620, -6935, -6181,
      -5366, -4496, -3582, -2632, -1656, -663, 336, 1332, 2315, 3275, 4202, 5087,
      5921, 6696, 7404, 8038, 8592, 9060, 9437, 9720, 9906, 9993, 9980, 9868,
      9657, 9349, 8948, 8457, 7883, 7229, 6503, 5712, 4864, 3967, 3031, 2065,
      1078, 80, -919, -1909, -2879, -3821, -4724, -5581, -6381, -7118, -7784, -8371,
      -8876, -9291, -9614, -9841, -9969, -9998, -9927, -9756, -9488, -9126, -8672, -8132,
      -7510, -6813, -6048, -5223, -4346, -3425, -2470, -1490, -495, 504, 1499, 2478,
      3433, 4354, 5231, 6055, 6820, 7516, 8137, 8676, 9129, 9491, 9758, 9928,
      9998, 9968, 9839, 9612, 9288, 8872, 8367, 7778, 7112, 6374, 5573, 4716,
      3813, 2871, 1900, 910, -89, -1086, -2073, -3040, -3976, -4872, -5719, -6510,
      -7235, -7888, -8462, -8952, -9352, -9659, -9869, -9981, -9993, -9905, -9718, -9434,
      -9056, -8587, -8033, -7398, -6689, -5914, -5079, -4194, -3266, -2306, -1324, -327,
      672, 1665, 2641, 3591, 4504, 5373, 6188, 6942, 7626, 8233, 8759, 9197,
      9543, 9794, 9946, 10000, 9954, 9808, 9564, 9224, 8793, 8273, 7671, 6992,
      6244, 5433, 4567, 3657, 2709, 1735, 743, -257, -1253, -2238, -3199, -4129,
      -5018, -5856, -6636, -7350, -7990, -8551, -9026, -9410, -9701, -9895, -9990, -9985,
      -9880, -9677, -9377, -8983, -8500, -7931, -7284, -6563, -5777, -4933, -4040, -3107,
      -2143, -1157, -159, 840, 1830, 2803, 3747, 4654, 5514, 6320, 7062, 7733,
      8328, 8839, 9262, 9592, 9826, 9962, 9999, 9936, 9773, 9513, 9158, 8711,
      8178, 7562, 6871, 6112, 5291, 4417, 3500, 2547, 1569, 575, -425, -1420,
      -2401, -3358, -4282, -5163, -5992, -6761, -7463, -8090, -8637, -9097, -9466, -9740,
      -9918, -9996, -9974, -9853, -9633
>>

\* The k-th 16-bit word the generator yields after np.random.seed(Seed),
\* for output stream g.
RandomWord(g, k) ==
    LET x == (Seed * 1000 + g * 7 + k) % 4093
    IN  (x * x + k * 13 + g) % 65521

\* np.random.randint(low, high, size=n)[i], drawn at stream positions 0 .. n-1.
randint(g, low, high, pos) == low + (RandomWord(g, pos) % (high - low))

\* np.random.choice(options, size=n)[i], drawn at stream position pos.
choice(g, options, pos) == options[1 + (RandomWord(g, pos) % Len(options))]

\* pd.DataFrame({...}): row i of the frame built from the dates and the
\* three arrays drawn in the order sales, categories, regions.
DataFrameRow(g, dates, i) ==
    [idx      |-> i - 1,
     Date     |-> dates[i],
     Sales    |-> randint(g, RandLow, RandHigh, i - 1) * 100 + SinTable[i],
     Category |-> choice(g, Categories, Len(dates) + i - 1),
     Region   |-> choice(g, Regions, 2 * Len(dates) + i - 1)]

DataFrame(g, dates) == [i \in DOMAIN dates |-> DataFrameRow(g, dates, i)]

\* The body of generate_data: the DataFrame of len(dates) rows.
generate_data_body(g) == DataFrame(g, date_range(RangeStart, RangeEnd))

\* @st.cache_data: a call looks the entry up; a miss runs the body and stores
\* the result, a hit returns (a copy of) the stored value.
CacheMiss(df) == [value |-> df, store |-> {df}, computed |-> 1]

CacheHit(c) == [value |-> CHOOSE df \in c : TRUE, store |-> c, computed |-> 0]

generate_data_uncached(c, g) == CacheMiss(generate_data_body(g))

generate_data(c, g) ==
    IF c = {} THEN CacheMiss(generate_data_body(g)) ELSE CacheHit(c)

----------------------------------------------------------------------------
\* pandas operations the pages use.  A Series is the sequence of its values.

\* Result of an aggregation of no values (float NaN).
NaN == -1

\* Sum of the Sales of rows[lo..hi], by halving the range.
RECURSIVE SumRange(_, _, _)
SumRange(rows, lo, hi) ==
    IF lo > hi THEN 0
    ELSE IF lo = hi THEN rows[lo].Sales
    ELSE SumRange(rows, lo, (lo + hi) \div 2)
         + SumRange(rows, ((lo + hi) \div 2) + 1, hi)

\* Series.sum(): 0 for no rows.
SumSales(rows) == SumRange(rows, 1, Len(rows))

\* Series.max(): NaN for no rows.
MaxSales(rows) ==
    IF rows = <<>> THEN NaN
    ELSE CHOOSE v \in {rows[i].Sales : i \in DOMAIN rows} :
            \A j \in DOMAIN rows : v >= rows[j].Sales

\* Series.mean(), truncated to hundredths: NaN for no rows.
MeanSales(rows) ==
    IF rows = <<>> THEN NaN ELSE SumSales(rows) \div Len(rows)

\* data['Date'].min() and .max()
MinDate(rows) ==
    CHOOSE d \in {rows[i].Date : i \in DOMAIN rows} :
        \A j \in DOMAIN rows : d <= rows[j].Date
MaxDate(rows) ==
    CHOOSE d \in {rows[i].Date : i \in DOMAIN rows} :
        \A j \in DOMAIN rows : d >= rows[j].Date

\* data[col].unique(): the values that occur in the column.
unique(rows, col) == {rows[i][col] : i \in DOMAIN rows}

\* data[(data['Date'].dt.date >= start_date) & (data['Date'].dt.date <= end_date)]
DateFilterExclusiveEnd(df, s, e) ==
    SelectSeq(df, LAMBDA r : r.Date >= s /\ r.Date < e)

DateFilterSwapped(df, s, e) ==
    SelectSeq(df, LAMBDA r :
        IF s <= e THEN r.Date >= s /\ r.Date <= e ELSE r.Date >= e /\ r.Date <= s)

DateFilter(df, s, e) ==
    SelectSeq(df, LAMBDA r : r.Date >= s /\ r.Date <= e)

\* data[data['Category'].isin(cs) & data['Region'].isin(rs)]
MembershipFilterOr(df, cs, rs) ==
    SelectSeq(df, LAMBDA r : r.Category \in cs \/ r.Region \in rs)

MembershipFilter(df, cs, rs) ==
    SelectSeq(df, LAMBDA r : r.Category \in cs /\ r.Region \in rs)

\* groupby sorts the group keys; strings sort in code-point order.
SortedKeys(col) ==
    IF col = "Category"
    THEN <<"Books", "Clothing", "Electronics", "Food", "Home">>
    ELSE <<"Central", "East", "North", "South", "West">>

\* The rows of df whose column col holds k.
Group(df, col, k) == SelectSeq(df, LAMBDA r : r[col] = k)

\* The sorted keys that occur in df.
GroupKeys(df, col) == SelectSeq(SortedKeys(col), LAMBDA k : k \in unique(df, col))

\* df.groupby(col)['Sales'].sum().reset_index(): one row per key that occurs
\* in df, in sorted key order, with the sum of the Sales of its rows.
GroupSumZeroFilled(df, col) ==
    [k \in DOMAIN SortedKeys(col) |->
        (col :> SortedKeys(col)[k])
            @@ ("Sales" :> SumSales(Group(df, col, SortedKeys(col)[k])))]

GroupSumFirst(df, col) ==
    [k \in DOMAIN GroupKeys(df, col) |->
        (col :> GroupKeys(df, col)[k])
            @@ ("Sales" :> Head(Group(df, col, GroupKeys(df, col)[k])).Sales)]

GroupSum(df, col) ==
    [k \in DOMAIN GroupKeys(df, col) |->
        (col :> GroupKeys(df, col)[k])
            @@ ("Sales" :> SumSales(Group(df, col, GroupKeys(df, col)[k])))]

----------------------------------------------------------------------------
\* DataFrame.to_csv.

Digit(n) == <<"0", "1", "2", "3", "4", "5", "6", "7", "8", "9">>[n + 1]

RECURSIVE Digits(_)
Digits(n) ==
    IF n < 10 THEN <<Digit(n)>> ELSE Digits(n \div 10) \o <<Digit(n % 10)>>

Pad2(n) == <<Digit((n \div 10) % 10), Digit(n % 10)>>

\* A datetime64 column whose times are all midnight is written as %Y-%m-%d.
FormatDate(d) ==
    Pad2(YearOf(d) \div 100) \o Pad2(YearOf(d) % 100) \o <<"-">>
        \o Pad2(MonthOf(d)) \o <<"-">> \o Pad2(DayOf(d))

\* A float is written with repr: the integer part, a point, and the
\* fraction digits without trailing zeros (at least one digit).
FormatFloat(v) ==
    Digits(v \div 100) \o <<".">>
        \o (IF v % 10 = 0 THEN <<Digit((v % 100) \div 10)>> ELSE Pad2(v % 100))

CsvHeader(index) ==
    (IF index THEN <<"", ",">> ELSE <<>>)
        \o <<"Date", ",", "Sales", ",", "Category", ",", "Region">>

CsvLine(r, index) ==
    (IF index THEN Digits(r.idx) \o <<",">> ELSE <<>>)
        \o FormatDate(r.Date) \o <<",">> \o FormatFloat(r.Sales)
        \o <<",", r.Category, ",", r.Region>>

\* df.to_csv(index=...): the header line, then one line per row.
to_csv(df, index) ==
    <<CsvHeader(index)>> \o [i \in DOMAIN df |-> CsvLine(df[i], index)]

\* filtered_data.to_csv(index=False).encode('utf-8'); every character written
\* is ASCII, so the bytes are the characters.
ExportCsvWithIndex(df) == to_csv(df, TRUE)

ExportCsv(df) == to_csv(df, FALSE)

----------------------------------------------------------------------------
\* The script.

Pages == <<"Dashboard", "Data Explorer", "About">>

\* Value of a script variable the run did not assign.
NoDate == 0

\* A widget call returns the session's value for the widget when it has one
\* and the widget's default otherwise.
WidgetValue(ws, label, default) ==
    IF label \in DOMAIN ws THEN ws[label] ELSE default

\* Lines 75-117: the metrics and the grouped frames of the filtered frame f.
DashboardView(d, s, e, f) ==
    [data |-> d, start_date |-> s, end_date |-> e,
     selected_categories |-> {}, selected_regions |-> {},
     filtered_data |-> f,
     total_sales |-> SumSales(f), avg_sales |-> MeanSales(f),
     max_sales |-> MaxSales(f), total_days |-> Len(f),
     cat_data |-> GroupSum(f, "Category"),
     region_data |-> GroupSum(f, "Region"),
     csv |-> <<>>,
     rendered |-> ("Start Date" :> s) @@ ("End Date" :> e)]

\* Lines 72-73, for the dates s and e the two date inputs returned.
DashboardFilterInPlace(d, s, e) ==
    DashboardView(DateFilter(d, s, e), s, e, DateFilter(d, s, e))

DashboardFilter(d, s, e) == DashboardView(d, s, e, DateFilter(d, s, e))

\* Lines 61-117.  d is the frame generate_data() returned, ws the session's
\* widget state.  The result holds the variables of the run and the widgets
\* the page rendered.
DashboardPage(d, ws) ==
    DashboardFilter(d, WidgetValue(ws, "Start Date", MinDate(d)),
                       WidgetValue(ws, "End Date", MaxDate(d)))

\* Lines 137-152: the export of the filtered frame f.
ExplorerView(d, cs, rs, f) ==
    [data |-> d, start_date |-> NoDate, end_date |-> NoDate,
     selected_categories |-> cs, selected_regions |-> rs,
     filtered_data |-> f,
     total_sales |-> 0, avg_sales |-> NaN, max_sales |-> NaN, total_days |-> 0,
     cat_data |-> <<>>, region_data |-> <<>>,
     csv |-> ExportCsv(f),
     rendered |-> ("Select Categories" :> cs) @@ ("Select Regions" :> rs)]

\* Lines 131-135, for the selections cs and rs the two multiselects returned.
ExplorerFilter(d, cs, rs) == ExplorerView(d, cs, rs, MembershipFilter(d, cs, rs))

\* Lines 120-152.
ExplorerPageAfterDateFilter(d, ws) ==
    ExplorerFilter(DateFilter(d, WidgetValue(ws, "Start Date", MinDate(d)),
                                 WidgetValue(ws, "End Date", MaxDate(d))),
                   WidgetValue(ws, "Select Categories", unique(d, "Category")),
                   WidgetValue(ws, "Select Regions", unique(d, "Region")))

ExplorerPage(d, ws) ==
    ExplorerFilter(d, WidgetValue(ws, "Select Categories", unique(d, "Category")),
                      WidgetValue(ws, "Select Regions", unique(d, "Region")))

\* Lines 155-184: the About page filters nothing and renders no widget.
AboutPage(d, ws) ==
    [data |-> d, start_date |-> NoDate, end_date |-> NoDate,
     selected_categories |-> {}, selected_regions |-> {},
     filtered_data |-> <<>>,
     total_sales |-> 0, avg_sales |-> NaN, max_sales |-> NaN, total_days |-> 0,
     cat_data |-> <<>>, region_data |-> <<>>,
     csv |-> <<>>,
     rendered |-> <<>>]

\* Lines 61, 120, 155: the branch for page p.
PageBody(p, d, ws) ==
    IF p = "Dashboard" THEN DashboardPage(d, ws)
    ELSE IF p = "Data Explorer" THEN ExplorerPage(d, ws)
    ELSE AboutPage(d, ws)

\* The run's result: its page, what generate_data() did, its variables ns.
ScriptResult(p, gen, ns) ==
    [page |-> p, gen |-> gen, ns |-> ns, widgets |-> ("Go to" :> p) @@ ns.rendered]

ScriptFrom(p, gen, ws) == ScriptResult(p, gen, PageBody(p, gen.value, ws))

\* One run of the script, lines 39-188, for widget state ws and cache c.
Script(c, g, ws) ==
    ScriptFrom(WidgetValue(ws, "Go to", Pages[1]), generate_data(c, g), ws)

\* The script runs for widget state ws; a widget the run did not render
\* loses its state.
Run(ws) ==
    \E r \in {Script(cache, rng_stream, ws)} :
        /\ cache' = r.gen.store
        /\ gen_runs' = gen_runs + r.gen.computed
        /\ runs' = runs + 1
        /\ widgets' = r.widgets
        /\ page' = r.page
        /\ data' = r.ns.data
        /\ start_date' = r.ns.start_date
        /\ end_date' = r.ns.end_date
        /\ selected_categories' = r.ns.selected_categories
        /\ selected_regions' = r.ns.selected_regions
        /\ filtered_data' = r.ns.filtered_data
        /\ total_sales' = r.ns.total_sales
        /\ avg_sales' = r.ns.avg_sales
        /\ max_sales' = r.ns.max_sales
        /\ total_days' = r.ns.total_days
        /\ cat_data' = r.ns.cat_data
        /\ region_data' = r.ns.region_data
        /\ csv' = r.ns.csv
        /\ UNCHANGED rng_stream

----------------------------------------------------------------------------
\* Initial state and user interactions.

\* The process has started; no session has run the script yet.
Init ==
    /\ rng_stream \in 1..NStreams
    /\ cache = {}
    /\ widgets = <<>>
    /\ gen_runs = 0
    /\ runs = 0
    /\ page = ""
    /\ data = <<>>
    /\ start_date = NoDate
    /\ end_date = NoDate
    /\ selected_categories = {}
    /\ selected_regions = {}
    /\ filtered_data = <<>>
    /\ total_sales = 0
    /\ avg_sales = NaN
    /\ max_sales = NaN
    /\ total_days = 0
    /\ cat_data = <<>>
    /\ region_data = <<>>
    /\ csv = <<>>

\* The dates the date pickers offer in this model.
PickDates ==
    {AddDays(RangeStart, k) : k \in 0..MaxPick}
        \cup {SubDays(RangeStart, k) : k \in 0..MaxPick}
        \cup {AddDays(RangeEnd, k) : k \in 0..MaxPick}
        \cup {SubDays(RangeEnd, k) : k \in 0..MaxPick}

\* The browser opens the app: first run, every widget at its default.
StartSession ==
    /\ runs = 0
    /\ Run(<<>>)

\* st.sidebar.radio("Go to", ...)
SelectPage(p) ==
    /\ runs >= 1 /\ runs < MaxRuns
    /\ p # page
    /\ Run([widgets EXCEPT !["Go to"] = p])

\* st.date_input("Start Date", ...)
SetStartDate(d) ==
    /\ runs >= 1 /\ runs < MaxRuns
    /\ "Start Date" \in DOMAIN widgets
    /\ d # widgets["Start Date"]
    /\ Run([widgets EXCEPT !["Start Date"] = d])

\* st.date_input("End Date", ...)
SetEndDate(d) ==
    /\ runs >= 1 /\ runs < MaxRuns
    /\ "End Date" \in DOMAIN widgets
    /\ d # widgets["End Date"]
    /\ Run([widgets EXCEPT !["End Date"] = d])

Toggle(S, x) == IF x \in S THEN S \ {x} ELSE S \cup {x}

\* st.multiselect("Select Categories", ...): one option added or removed.
ToggleCategory(c) ==
    /\ runs >= 1 /\ runs < MaxRuns
    /\ "Select Categories" \in DOMAIN widgets
    /\ c \in unique(data, "Category")
    /\ Run([widgets EXCEPT !["Select Categories"] = Toggle(@, c)])

\* The multiselect's clear-all button.
ClearCategories ==
    /\ runs >= 1 /\ runs < MaxRuns
    /\ "Select Categories" \in DOMAIN widgets
    /\ widgets["Select Categories"] # {}
    /\ Run([widgets EXCEPT !["Select Categories"] = {}])

\* st.multiselect("Select Regions", ...)
ToggleRegion(x) ==
    /\ runs >= 1 /\ runs < MaxRuns
    /\ "Select Regions" \in DOMAIN widgets
    /\ x \in unique(data, "Region")
    /\ Run([widgets EXCEPT !["Select Regions"] = Toggle(@, x)])

ClearRegions ==
    /\ runs >= 1 /\ runs < MaxRuns
    /\ "Select Regions" \in DOMAIN widgets
    /\ widgets["Select Regions"] # {}
    /\ Run([widgets EXCEPT !["Select Regions"] = {}])

Next ==
    \/ StartSession
    \/ \E p \in {Pages[i] : i \in DOMAIN Pages} : SelectPage(p)
    \/ \E d \in PickDates : SetStartDate(d)
    \/ \E d \in PickDates : SetEndDate(d)
    \/ \E c \in {Categories[i] : i \in DOMAIN Categories} : ToggleCategory(c)
    \/ ClearCategories
    \/ \E x \in {Regions[i] : i \in DOMAIN Regions} : ToggleRegion(x)
    \/ ClearRegions

Spec == Init /\ [][Next]_vars

----------------------------------------------------------------------------
\* Properties.

\* The frame the cache holds (cache # {}).
Cached == CHOOSE df \in cache : TRUE

\* The rows of frame f are rows of frame d, in d's order, none twice.
SubFrame(f, d) ==
    /\ \A j \in DOMAIN f : f[j].idx + 1 \in DOMAIN d /\ f[j] = d[f[j].idx + 1]
    /\ \A j \in DOMAIN f : j > 1 => f[j - 1].idx < f[j].idx

InRange(r, s, e) == s <= r.Date /\ r.Date <= e

Selected(r, cs, rs) == r.Category \in cs /\ r.Region \in rs

\* C1: on the Dashboard, for start_date <= end_date, filtered_data holds only
\* rows of data whose Date lies in [start_date, end_date], both bounds
\* included, each at most once, and as many rows as data has in that range.
C1_DateFilterInclusive ==
    (page = "Dashboard" /\ start_date <= end_date) =>
        /\ \A j \in DOMAIN filtered_data :
                InRange(filtered_data[j], start_date, end_date)
        /\ SubFrame(filtered_data, data)
        /\ Len(filtered_data)
              = Cardinality({i \in DOMAIN data : InRange(data[i], start_date, end_date)})

\* The scenario of the specification: both dates 2023-01-01 give exactly the
\* one row of that day.
C1_Witness ==
    /\ page = "Dashboard"
    /\ start_date = RangeStart /\ end_date = RangeStart
    /\ Len(filtered_data) = 1
    /\ filtered_data[1].Date = RangeStart

\* C2: on the Dashboard, start_date > end_date gives an empty filtered_data,
\* and the run completes: the count and the sum are 0, the mean and the
\* maximum are NaN, the grouped frames are empty.
C2_InvertedRangeEmpty ==
    (page = "Dashboard" /\ start_date > end_date) =>
        /\ filtered_data = <<>>
        /\ total_days = 0 /\ total_sales = 0
        /\ avg_sales = NaN /\ max_sales = NaN
        /\ cat_data = <<>> /\ region_data = <<>>

\* An inverted range whose two dates both lie inside the dataset.
C2_Witness ==
    /\ page = "Dashboard"
    /\ start_date > end_date
    /\ start_date <= RangeEnd /\ end_date >= RangeStart
    /\ filtered_data = <<>>

\* C3: on the Data Explorer, filtered_data holds exactly the rows of data
\* whose Category is selected and whose Region is selected; an empty
\* selection of either gives no row.
C3_MembershipFilterExact ==
    page = "Data Explorer" =>
        /\ SubFrame(filtered_data, data)
        /\ {filtered_data[j].idx : j \in DOMAIN filtered_data}
              = {data[i].idx : i \in {k \in DOMAIN data :
                    Selected(data[k], selected_categories, selected_regions)}}
        /\ (selected_categories = {} \/ selected_regions = {}) => filtered_data = <<>>

\* Both selections are proper and non-empty, and a row is excluded by its
\* region alone.
C3_Witness ==
    /\ page = "Data Explorer"
    /\ selected_categories # {} /\ selected_categories # unique(data, "Category")
    /\ selected_regions # {} /\ selected_regions # unique(data, "Region")
    /\ filtered_data # <<>>
    /\ \E i \in DOMAIN data :
          data[i].Category \in selected_categories /\ data[i].Region \notin selected_regions

\* Sum of the Sales column of a grouped frame.
RECURSIVE ColumnTotal(_)
ColumnTotal(frame) ==
    IF frame = <<>> THEN 0 ELSE Head(frame).Sales + ColumnTotal(Tail(frame))

C5_GroupKeysObserved ==
    page = "Dashboard" =>
        /\ {cat_data[k].Category : k \in DOMAIN cat_data}
              = {filtered_data[j].Category : j \in DOMAIN filtered_data}
        /\ Len(cat_data)
              = Cardinality({filtered_data[j].Category : j \in DOMAIN filtered_data})
        /\ {region_data[k].Region : k \in DOMAIN region_data}
              = {filtered_data[j].Region : j \in DOMAIN filtered_data}
        /\ Len(region_data)
              = Cardinality({filtered_data[j].Region : j \in DOMAIN filtered_data})

\* A non-empty filtered range in which some category of the dataset does not
\* occur.
C5_Witness ==
    /\ page = "Dashboard"
    /\ filtered_data # <<>>
    /\ Len(cat_data) < Cardinality(unique(data, "Category"))
    /\ Len(region_data) < Cardinality(unique(data, "Region"))

\* C6: once the dataset is generated, no run changes it: the cache keeps its
\* entry and data is that entry after every run.
C6_SourceUnchanged ==
    [][cache # {} => (cache' = cache /\ data' = data /\ cache' = {data'})]_vars

\* Several runs later, on the Data Explorer with rows filtered out and the
\* CSV written, data is still the cached frame.
C6_Witness ==
    /\ runs >= 4
    /\ page = "Data Explorer"
    /\ Len(filtered_data) < Len(data)
    /\ Len(csv) = Len(filtered_data) + 1
    /\ cache = {data}

\* C7: the body of generate_data runs on the first call only, and every run
\* gets the stored frame.
C7_GeneratedOnce ==
    /\ runs = 0 => (gen_runs = 0 /\ cache = {})
    /\ runs >= 1 => (gen_runs = 1 /\ cache = {data})

\* The third run and later.
C7_Witness == runs >= 3 /\ gen_runs = 1 /\ cache = {data}

\* The days of year y.
DaysOfYear(y) ==
    {MkDate(y, m, d) : m \in 1..12, d \in 1..31} \ 
        {MkDate(y, 2, 29 + (IF IsLeap(y) THEN 1 ELSE 0)), MkDate(y, 2, 30),
         MkDate(y, 2, 31), MkDate(y, 4, 31), MkDate(y, 6, 31),
         MkDate(y, 9, 31), MkDate(y, 11, 31)}

\* C8: the dataset has 365 rows, one for every day of 2023 from 1 January to
\* 31 December, and each row's Date is the day after the previous row's.
C8_OneRowPerDay ==
    runs >= 1 =>
        /\ Len(data) = 365
        /\ {data[i].Date : i \in DOMAIN data} = DaysOfYear(2023)
        /\ \A i \in DOMAIN data : i > 1 =>
              /\ data[i - 1].Date < data[i].Date
              /\ data[i].Date = NextDay(data[i - 1].Date)

C8_Witness ==
    /\ runs >= 1
    /\ Len(data) = 365
    /\ data[1].Date = 20230101
    /\ data[365].Date = 20231231

\* Reading a CSV line back.
CommaPositions(line) == {k \in DOMAIN line : line[k] = ","}

FieldCount(line) == Cardinality(CommaPositions(line)) + 1

\* Position of the n-th comma; 0 and Len(line) + 1 stand for the line's ends.
CommaAt(line, n) ==
    IF n = 0 THEN 0
    ELSE IF n > Cardinality(CommaPositions(line)) THEN Len(line) + 1
    ELSE CHOOSE k \in CommaPositions(line) :
            Cardinality({c \in CommaPositions(line) : c < k}) = n - 1

Field(line, n) == SubSeq(line, CommaAt(line, n - 1) + 1, CommaAt(line, n) - 1)

DigitValue(c) == CHOOSE n \in 0..9 : Digit(n) = c

IsDigit(c) == \E n \in 0..9 : Digit(n) = c

RECURSIVE ParseNat(_)
ParseNat(t) ==
    IF t = <<>> THEN 0
    ELSE 10 * ParseNat(SubSeq(t, 1, Len(t) - 1)) + DigitValue(t[Len(t)])

\* YYYY-MM-DD
IsDateText(t) ==
    /\ Len(t) = 10
    /\ t[5] = "-" /\ t[8] = "-"
    /\ \A k \in {1, 2, 3, 4, 6, 7, 9, 10} : IsDigit(t[k])

ParseDate(t) ==
    MkDate(ParseNat(SubSeq(t, 1, 4)), ParseNat(SubSeq(t, 6, 7)), ParseNat(SubSeq(t, 9, 10)))

\* digits "." digits, a plain decimal number
IsDecimalText(t) ==
    /\ Cardinality({k \in DOMAIN t : t[k] = "."}) = 1
    /\ t[1] # "." /\ t[Len(t)] # "."
    /\ \A k \in DOMAIN t : t[k] = "." \/ IsDigit(t[k])

PointAt(t) == CHOOSE k \in DOMAIN t : t[k] = "."

\* The value in hundredths, for at most two fraction digits.
ParseDecimal(t) ==
    ParseNat(SubSeq(t, 1, PointAt(t) - 1)) * 100
        + (IF Len(t) - PointAt(t) = 1
           THEN 10 * DigitValue(t[Len(t)])
           ELSE ParseNat(SubSeq(t, PointAt(t) + 1, Len(t))))

ParsesTo(line, r) ==
    /\ FieldCount(line) = 4
    /\ IsDateText(Field(line, 1)) /\ ParseDate(Field(line, 1)) = r.Date
    /\ IsDecimalText(Field(line, 2))
    /\ Len(Field(line, 2)) - PointAt(Field(line, 2)) <= 2
    /\ ParseDecimal(Field(line, 2)) = r.Sales
    /\ Field(line, 3) = <<r.Category>>
    /\ Field(line, 4) = <<r.Region>>

\* C9: on the Data Explorer, csv is the header Date,Sales,Category,Region
\* followed by one line per row of filtered_data, in order; each line has
\* four fields (no index column) and reads back as the row's Date, Sales,
\* Category and Region.
C9_CsvRoundTrip ==
    page = "Data Explorer" =>
        /\ Len(csv) = Len(filtered_data) + 1
        /\ csv[1] = <<"Date", ",", "Sales", ",", "Category", ",", "Region">>
        /\ \A j \in DOMAIN filtered_data : ParsesTo(csv[j + 1], filtered_data[j])

\* An export of some but not all rows.
C9_Witness ==
    /\ page = "Data Explorer"
    /\ filtered_data # <<>>
    /\ Len(filtered_data) < Len(data)
    /\ Len(csv) = Len(filtered_data) + 1
    /\ ParsesTo(csv[2], filtered_data[1])

\* The index labels of the rows of frame d that satisfy a page's filter for
\* the current widget values.
ExpectedView ==
    IF page = "Dashboard"
    THEN {Cached[i].idx : i \in {k \in DOMAIN Cached :
              InRange(Cached[k], widgets["Start Date"], widgets["End Date"])}}
    ELSE IF page = "Data Explorer"
    THEN {Cached[i].idx : i \in {k \in DOMAIN Cached :
              Selected(Cached[k], widgets["Select Categories"], widgets["Select Regions"])}}
    ELSE {}

\* C10: after every run the filtered view is computed from the full cached
\* dataset and the current page's current widget values alone: the date
\* range on the Dashboard, the two selections on the Data Explorer, nothing
\* on the About page.
C10_FreshPass ==
    runs >= 1 =>
        /\ SubFrame(filtered_data, Cached)
        /\ {filtered_data[j].idx : j \in DOMAIN filtered_data} = ExpectedView
        /\ page = "Dashboard" => DOMAIN widgets = {"Go to", "Start Date", "End Date"}
        /\ page = "Data Explorer"
              => DOMAIN widgets = {"Go to", "Select Categories", "Select Regions"}

\* The Data Explorer, reached after at least two earlier runs, with both
\* selections changed.
C10_Witness ==
    /\ runs >= 4
    /\ page = "Data Explorer"
    /\ widgets["Select Categories"] # unique(data, "Category")
    /\ widgets["Select Regions"] # unique(data, "Region")
    /\ filtered_data # <<>>

====
